---- MODULE Spec2Model ----
(***************************************************************************)
(* KinoPy: the VideoBuilder of video_builder.py (timeline, overlays,       *)
(* letterbox resizing, freeze frames, render) and the command line driver  *)
(* of main.py.                                                             *)
(*                                                                         *)
(* Times are integers counted in ticks of half a millisecond, so that the  *)
(* 1e-3 s guard of add_freeze_frame is two ticks and durations below it    *)
(* exist.  Sizes are pairs <<width, height>> of integers.  Pixel values    *)
(* are not modelled: a clip is its size, its timing and where it came      *)
(* from.  Fades change pixel values only and leave no trace here.          *)
(***************************************************************************)
EXTENDS Integers, Sequences, FiniteSets, TLC

VARIABLES size, fps, timeline_clips, overlay_clips, output, lastCall, raised, pc, args

builder == <<size, fps, timeline_clips, overlay_clips, output, lastCall, raised>>
vars == <<size, fps, timeline_clips, overlay_clips, output, lastCall, raised, pc, args>>

\* ---------------------------------------------------------------- bounds
MaxTimeline == 3
MaxBase == 2
MaxLayers == 2
MaxDim == 5

\* ------------------------------------------------------- program constants
EPS == 2
DefaultFps == 30

\* ---------------------------------------------------------------- inputs
Durations == {0, 1, 4}
AtTimes == {-1, 1, 5}
CanvasSize == <<4, 2>>
SrcSizes == {<<8, 4>>, <<3, 3>>}
TextSize == <<3, 1>>
OvStarts == {0, 3}
OvDurations == {1, 4}

Max2(a, b) == IF a >= b THEN a ELSE b
Min2(a, b) == IF a <= b THEN a ELSE b

\* ------------------------------------------------------ letterbox resizer
\* Python's round() on a non-negative quotient n/d: nearest integer, ties to even.
round(n, d) ==
    LET q == n \div d
        r == n % d
    IN  IF 2 * r < d THEN q
        ELSE IF 2 * r > d THEN q + 1
        ELSE IF q % 2 = 0 THEN q ELSE q + 1

scale_to_fill(clip_size, target_size) ==
    IF target_size[1] * clip_size[2] >= target_size[2] * clip_size[1]
    THEN <<target_size[1], clip_size[1]>>
    ELSE <<target_size[2], clip_size[2]>>

\* scale = min(target_w / cw, target_h / ch), kept as the exact fraction <<num, den>>.
scale(clip_size, target_size) ==
    IF target_size[1] * clip_size[2] <= target_size[2] * clip_size[1]
    THEN <<target_size[1], clip_size[1]>>
    ELSE <<target_size[2], clip_size[2]>>

new_size(clip_size, target_size) ==
    LET s == scale(clip_size, target_size)
    IN  <<round(clip_size[1] * s[1], s[2]), round(clip_size[2] * s[1], s[2])>>

_resize_without_letterbox(clip_size, target_size) ==
    LET resized == new_size(clip_size, target_size)
    IN  [size |-> resized, inner |-> resized, composited |-> FALSE]

_resize_and_letterbox(clip_size, target_size) ==
    LET resized == new_size(clip_size, target_size)
    IN  IF resized = target_size
        THEN [size |-> resized, inner |-> resized, composited |-> FALSE]
        ELSE [size |-> target_size, inner |-> resized, composited |-> TRUE]

\* ------------------------------------------------------------ the builder
NoTimeline == [clips |-> <<>>, start |-> 0, duration |-> 0, end |-> 0]
NoOutput == [written |-> FALSE, timeline |-> NoTimeline, overlays |-> <<>>, duration |-> 0]
NoArgs == [text |-> FALSE, clip |-> "none", freeze |-> FALSE, overlay_text |-> FALSE,
           overlay_start |-> FALSE, arrow |-> <<>>, arrow_start |-> FALSE]

\* The most recent call on the builder: its name, its duration argument and its
\* time argument (at_time of a freeze frame, start_time of an overlay).
Call(name, duration, at) == [name |-> name, duration |-> duration, at |-> at]

VideoBuilder(canvas, rate) ==
    /\ size = canvas
    /\ fps = rate
    /\ timeline_clips = <<>>
    /\ overlay_clips = <<>>
    /\ output = NoOutput
    /\ lastCall = Call("none", 0, 0)
    /\ raised = "none"

Entry(kind, duration, source_size, lb, src, sample_t) ==
    [kind |-> kind, duration |-> duration, size |-> lb.size, source_size |-> source_size,
     inner |-> lb.inner, composited |-> lb.composited, src |-> src, sample_t |-> sample_t]

add_text_screen(duration) ==
    /\ timeline_clips' = Append(timeline_clips,
          Entry("text", duration, size,
                [size |-> size, inner |-> size, composited |-> FALSE], 0, 0))
    /\ lastCall' = Call("add_text_screen", duration, 0)
    /\ raised' = "none"
    /\ UNCHANGED <<size, fps, overlay_clips, output>>

\* clip_duration is the duration of the trimmed subclip; readable is whether the
\* decoder could open the file.
add_clip(source_size, clip_duration, readable) ==
    /\ lastCall' = Call("add_clip", clip_duration, 0)
    /\ IF ~readable
       THEN /\ raised' = "IOError"
            /\ UNCHANGED <<size, fps, timeline_clips, overlay_clips, output>>
       ELSE /\ timeline_clips' = Append(timeline_clips,
                  Entry("clip", clip_duration, source_size,
                        _resize_and_letterbox(source_size, size), 0, 0))
            /\ raised' = "none"
            /\ UNCHANGED <<size, fps, overlay_clips, output>>

first_index(clips) == 1

previous_index(clips) == Len(clips)

sample_time(at_time, prev_duration) ==
    Max2(0, Min2(at_time, Max2(0, prev_duration - EPS)))

add_freeze_frame_lenient(duration, at_time) ==
    /\ lastCall' = Call("add_freeze_frame", duration, at_time)
    /\ raised' = "none"
    /\ timeline_clips' = Append(timeline_clips,
          Entry("freeze", duration, size,
                [size |-> size, inner |-> size, composited |-> FALSE],
                Len(timeline_clips), 0))
    /\ UNCHANGED <<size, fps, overlay_clips, output>>

add_freeze_frame(duration, at_time) ==
    /\ lastCall' = Call("add_freeze_frame", duration, at_time)
    /\ IF timeline_clips = <<>>
       THEN /\ raised' = "ValueError"
            /\ UNCHANGED <<size, fps, timeline_clips, overlay_clips, output>>
       ELSE LET p == previous_index(timeline_clips)
                previous_clip == timeline_clips[p]
                sample_t == sample_time(at_time, previous_clip.duration)
            IN  /\ timeline_clips' = Append(timeline_clips,
                      Entry("freeze", duration, previous_clip.size,
                            _resize_and_letterbox(previous_clip.size, size), p, sample_t))
                /\ raised' = "none"
                /\ UNCHANGED <<size, fps, overlay_clips, output>>

\* --------------------------------------------------------------- overlays
\* One axis of a position: the word center or a pixel offset.
Center == [tag |-> "center", v |-> 0]
Px(n) == [tag |-> "px", v |-> n]

\* The bare string 'center' and the default ("center", "center") both name this pair.
CenterCenter == <<Center, Center>>
Origin == <<Px(0), Px(0)>>
Positions == {CenterCenter, <<Px(1), Px(0)>>}

add_overlay(kind, start_time, duration, position, text_size) ==
    /\ lastCall' = Call("add_overlay", duration, start_time)
    /\ IF kind \notin {"Arrow", "Text"}
       THEN /\ raised' = "TypeError"
            /\ UNCHANGED <<size, fps, timeline_clips, overlay_clips, output>>
       ELSE LET clip_size == IF kind = "Arrow" THEN size ELSE text_size
            IN  /\ overlay_clips' = Append(overlay_clips,
                      [kind |-> kind, size |-> clip_size, duration |-> duration,
                       start |-> start_time, end |-> start_time + duration,
                       pos |-> position])
                /\ raised' = "none"
                /\ UNCHANGED <<size, fps, timeline_clips, output>>

\* ----------------------------------------------------------------- render
RECURSIVE cumsum(_, _)
cumsum(clips, n) == IF n = 0 THEN 0 ELSE cumsum(clips, n - 1) + clips[n].duration

clip_start_inclusive(clips, i) == cumsum(clips, i)

clip_start(clips, i) == cumsum(clips, i - 1)

\* moviepy's concatenate_videoclips(method="compose"): tt = cumsum([0] + durations),
\* clip i is given start tt[i], and the result runs from 0 to tt[-1].
concatenate_videoclips(clips) ==
    [clips |-> [i \in 1..Len(clips) |->
                  [entry |-> i, start |-> clip_start(clips, i),
                   end |-> clip_start(clips, i) + clips[i].duration]],
     start |-> 0,
     duration |-> cumsum(clips, Len(clips)),
     end |-> cumsum(clips, Len(clips))]

\* max(ends) over the layers handed to CompositeVideoClip.
RECURSIVE max_end(_, _)
max_end(ends, n) == IF n = 1 THEN ends[1] ELSE Max2(ends[n], max_end(ends, n - 1))

composite_duration(final_timeline, overlays) ==
    LET ends == <<final_timeline.end>> \o [i \in 1..Len(overlays) |-> overlays[i].end]
    IN  max_end(ends, Len(ends))

\* moviepy's CompositeVideoClip takes duration = max(c.end for c in clips); render
\* passes [final_timeline] + overlay_clips and writes the result as it is.
CompositeVideoClip(final_timeline, overlays) ==
    [written |-> TRUE, timeline |-> final_timeline, overlays |-> overlays,
     duration |-> composite_duration(final_timeline, overlays)]

render_unguarded ==
    /\ lastCall' = Call("render", 0, 0)
    /\ raised' = "none"
    /\ output' = CompositeVideoClip(concatenate_videoclips(timeline_clips), overlay_clips)
    /\ UNCHANGED <<size, fps, timeline_clips, overlay_clips>>

render ==
    /\ lastCall' = Call("render", 0, 0)
    /\ raised' = "none"
    /\ IF timeline_clips = <<>>
       THEN UNCHANGED <<size, fps, timeline_clips, overlay_clips, output>>
       ELSE /\ output' = CompositeVideoClip(concatenate_videoclips(timeline_clips), overlay_clips)
            /\ UNCHANGED <<size, fps, timeline_clips, overlay_clips>>

\* ------------------------------------------------------ the rendered frame
is_playing_through_end(c, t) == t >= c.start /\ t <= c.end

\* moviepy's Clip.is_playing: a layer is blitted at t when start <= t < end.
is_playing(c, t) == t >= c.start /\ t < c.end

\* int((canvas - content) / 2): Python's int() truncates toward zero.
centered(canvas_dim, content_dim) ==
    LET d == canvas_dim - content_dim
    IN  IF d >= 0 THEN d \div 2 ELSE -((-d) \div 2)

blit_position(c, canvas) ==
    << IF c.pos[1].tag = "center" THEN centered(canvas[1], c.size[1]) ELSE c.pos[1].v,
       IF c.pos[2].tag = "center" THEN centered(canvas[2], c.size[2]) ELSE c.pos[2].v >>

\* The layers blitted, bottom first, into the frame of video at time t.
playing_clips(video, t) ==
    LET base == IF is_playing(video.timeline, t)
                THEN SelectSeq(video.timeline.clips,
                               LAMBDA c : is_playing(c, t - video.timeline.start))
                ELSE <<>>
        over == SelectSeq([i \in 1..Len(video.overlays) |->
                              [entry |-> i, start |-> video.overlays[i].start,
                               end |-> video.overlays[i].end]],
                          LAMBDA c : is_playing(c, t))
    IN  [i \in 1..Len(base) |-> [layer |-> "timeline", index |-> base[i].entry]]
        \o [i \in 1..Len(over) |-> [layer |-> "overlay", index |-> over[i].entry]]

\* ------------------------------------- the timeline calls in any order
Kinds == {"Arrow", "Text", "Shape"}

Init ==
    /\ VideoBuilder(CanvasSize, DefaultFps)
    /\ pc = "api"
    /\ args = NoArgs

TextScreen ==
    /\ Len(timeline_clips) < MaxTimeline
    /\ \E d \in Durations : add_text_screen(d)
    /\ UNCHANGED <<pc, args>>

Clip ==
    /\ Len(timeline_clips) < MaxTimeline
    /\ \E s \in SrcSizes, d \in Durations, r \in BOOLEAN : add_clip(s, d, r)
    /\ UNCHANGED <<pc, args>>

FreezeFrame ==
    /\ Len(timeline_clips) < MaxTimeline
    /\ \E d \in Durations, at \in AtTimes : add_freeze_frame(d, at)
    /\ UNCHANGED <<pc, args>>

Render ==
    /\ render
    /\ UNCHANGED <<pc, args>>

Next == TextScreen \/ Clip \/ FreezeFrame \/ Render

Spec == Init /\ [][Next]_vars

\* ------------------------------------- overlays over a short base timeline
OvBase ==
    /\ Len(timeline_clips) < MaxBase
    /\ add_text_screen(3)
    /\ UNCHANGED <<pc, args>>

OvFreezeFrame ==
    /\ Len(timeline_clips) < MaxBase
    /\ add_freeze_frame(2, 1)
    /\ UNCHANGED <<pc, args>>

OvOverlay ==
    /\ Len(overlay_clips) < MaxLayers
    /\ \E k \in Kinds, s \in OvStarts, d \in OvDurations, p \in Positions :
          /\ k = "Arrow" \/ p = CenterCenter
          /\ add_overlay(k, s, d, p, TextSize)
    /\ UNCHANGED <<pc, args>>

NextOverlay == OvBase \/ OvFreezeFrame \/ OvOverlay \/ Render

SpecOverlay == Init /\ [][NextOverlay]_vars

\* ------------------------------------------- the letterbox resizer by itself
Dims == 1..MaxDim

InitLetterbox ==
    /\ \E tw \in Dims, th \in Dims : VideoBuilder(<<tw, th>>, DefaultFps)
    /\ pc = "api"
    /\ args = NoArgs

LbClip ==
    /\ timeline_clips = <<>>
    /\ \E cw \in Dims, ch \in Dims : add_clip(<<cw, ch>>, 1, TRUE)
    /\ UNCHANGED <<pc, args>>

LbFreezeFrame ==
    /\ Len(timeline_clips) = 1
    /\ add_freeze_frame(1, 0)
    /\ UNCHANGED <<pc, args>>

NextLetterbox == LbClip \/ LbFreezeFrame

SpecLetterbox == InitLetterbox /\ [][NextLetterbox]_vars

\* ------------------------------------------------------ the command line
\* One comma-separated part of --arrow: an integer literal or something else.
Num(n) == [int |-> TRUE, v |-> n]
Junk == [int |-> FALSE, v |-> 0]

ArrowArgs == { <<>>,
               <<Num(1), Num(1), Num(3), Num(1)>>,
               <<Num(1), Num(1), Num(3)>>,
               <<Num(1), Num(1), Num(3), Num(1), Num(2)>>,
               <<Num(1), Junk, Num(3), Num(1)>> }

ArgSpace == [text : BOOLEAN, clip : {"none", "ok", "missing"}, freeze : BOOLEAN,
             overlay_text : BOOLEAN, overlay_start : BOOLEAN,
             arrow : ArrowArgs, arrow_start : BOOLEAN]

parse_arrow(parts) ==
    IF Len(parts) # 4 THEN [ok |-> FALSE, start |-> <<0, 0>>, end |-> <<0, 0>>]
    ELSE IF \E i \in 1..4 : ~parts[i].int THEN [ok |-> FALSE, start |-> <<0, 0>>, end |-> <<0, 0>>]
    ELSE [ok |-> TRUE, start |-> <<parts[1].v, parts[2].v>>, end |-> <<parts[3].v, parts[4].v>>]

InitCLI ==
    /\ VideoBuilder(CanvasSize, DefaultFps)
    /\ pc = "title"
    /\ args \in ArgSpace

\* An exception of a builder call ends main.
after(next_pc) == IF raised' = "none" THEN next_pc ELSE "aborted"

MainTitle ==
    /\ pc = "title"
    /\ IF args.text
       THEN add_text_screen(4) /\ pc' = after("clip")
       ELSE UNCHANGED builder /\ pc' = "clip"
    /\ UNCHANGED args

MainClip ==
    /\ pc = "clip"
    /\ IF args.clip # "none"
       THEN add_clip(<<3, 3>>, 3, args.clip = "ok") /\ pc' = after("freeze")
       ELSE UNCHANGED builder /\ pc' = "freeze"
    /\ UNCHANGED args

MainFreeze ==
    /\ pc = "freeze"
    /\ IF args.freeze
       THEN add_freeze_frame(2, 1) /\ pc' = after("overlay")
       ELSE UNCHANGED builder /\ pc' = "overlay"
    /\ UNCHANGED args

MainOverlay ==
    /\ pc = "overlay"
    /\ IF args.overlay_text /\ args.overlay_start
       THEN add_overlay("Text", 1, 4, CenterCenter, TextSize) /\ pc' = after("arrow")
       ELSE UNCHANGED builder /\ pc' = "arrow"
    /\ UNCHANGED args

MainArrow ==
    /\ pc = "arrow"
    /\ IF args.arrow # <<>> /\ args.arrow_start
       THEN IF parse_arrow(args.arrow).ok
            THEN add_overlay("Arrow", 1, 4, Origin, TextSize) /\ pc' = after("render")
            ELSE UNCHANGED builder /\ pc' = "parse_error"
       ELSE UNCHANGED builder /\ pc' = "render"
    /\ UNCHANGED args

MainRender ==
    /\ pc = "render"
    /\ render
    /\ pc' = "done"
    /\ UNCHANGED args

NextCLI == MainTitle \/ MainClip \/ MainFreeze \/ MainOverlay \/ MainArrow \/ MainRender

SpecCLI == InitCLI /\ [][NextCLI]_vars

(***************************************************************************)
(* Properties                                                              *)
(***************************************************************************)
RECURSIVE SumDurations(_, _)
SumDurations(clips, n) ==
    IF n = 0 THEN 0 ELSE clips[1].duration + SumDurations(Tail(clips), n - 1)

Clamp(x, lo, hi) == Max2(lo, Min2(x, hi))

TimelineCalls == {"add_text_screen", "add_clip", "add_freeze_frame"}

\* C1: every step keeps the entries already on the timeline in place (a successful
\* add_text_screen / add_clip / add_freeze_frame adds exactly one entry at the end),
\* and a render of a non-empty timeline concatenates the entries in append order,
\* entry i starting at the sum of the durations of entries 0..i-1, the concatenation
\* lasting the sum of all entry durations.
C1_AppendOrderAndCumulativeStart ==
    [][ /\ Len(timeline_clips') >= Len(timeline_clips)
        /\ \A i \in 1..Len(timeline_clips) : timeline_clips'[i] = timeline_clips[i]
        /\ (lastCall'.name \in TimelineCalls /\ raised' = "none")
              => Len(timeline_clips') = Len(timeline_clips) + 1
        /\ (lastCall'.name = "render" /\ timeline_clips' # <<>>)
              => LET tl == output'.timeline
                     n == Len(timeline_clips')
                 IN  /\ Len(tl.clips) = n
                     /\ \A i \in 1..n :
                           /\ tl.clips[i].entry = i
                           /\ tl.clips[i].start = SumDurations(timeline_clips', i - 1)
                           /\ tl.clips[i].end - tl.clips[i].start = timeline_clips'[i].duration
                     /\ tl.duration = SumDurations(timeline_clips', n) ]_vars

C1_Witness ==
    /\ lastCall.name = "render"
    /\ Len(timeline_clips) = 3
    /\ timeline_clips[1].duration = 4
    /\ timeline_clips[2].duration = 1
    /\ output.timeline.clips[3].start = 5
    /\ output.timeline.duration = 9

\* C7: after every step each entry stored on the timeline has exactly the canvas
\* size, and no step changes the canvas size or the frame rate.
C7_EntriesAreCanvasSized ==
    [][ /\ size' = size
        /\ fps' = fps
        /\ \A i \in 1..Len(timeline_clips') : timeline_clips'[i].size = size' ]_vars

C7_Witness ==
    /\ Len(timeline_clips) = 3
    /\ timeline_clips[1].kind = "clip" /\ timeline_clips[1].composited
    /\ timeline_clips[1].source_size # size
    /\ timeline_clips[2].kind = "freeze"
    /\ timeline_clips[3].kind = "text"

\* C8: a successful add_freeze_frame(duration, at_time) appends an entry that samples
\* the last entry before it at clamp(at_time, 0, prevDuration - EPS), a time in
\* [0, prevDuration) whenever prevDuration > 0, and that lasts exactly duration.
C8_FreezeSamplesPreviousEntry ==
    (lastCall.name = "add_freeze_frame" /\ raised = "none")
      => LET n == Len(timeline_clips)
             e == timeline_clips[n]
             prev == timeline_clips[n - 1]
         IN  /\ e.kind = "freeze"
             /\ e.src = n - 1
             /\ e.sample_t = Clamp(lastCall.at, 0, prev.duration - EPS)
             /\ prev.duration > 0 => (0 <= e.sample_t /\ e.sample_t < prev.duration)
             /\ e.duration = lastCall.duration

C8_Witness ==
    /\ lastCall.name = "add_freeze_frame" /\ raised = "none"
    /\ Len(timeline_clips) = 3
    /\ lastCall.at = 5
    /\ timeline_clips[2].duration = 4
    /\ timeline_clips[3].sample_t = 2
    /\ timeline_clips[3].src = 2

\* C3: add_freeze_frame on an empty timeline raises its error and leaves the
\* timeline list and the overlay list as they were, however many overlays were
\* added; on a non-empty timeline it does not raise that error.
C3_FreezeFrameNeedsAnEntry ==
    [][ lastCall'.name = "add_freeze_frame"
          => IF timeline_clips = <<>>
             THEN /\ raised' = "ValueError"
                  /\ timeline_clips' = timeline_clips
                  /\ overlay_clips' = overlay_clips
             ELSE raised' # "ValueError" ]_vars

C3_Witness ==
    /\ lastCall.name = "add_freeze_frame"
    /\ raised = "ValueError"
    /\ timeline_clips = <<>>
    /\ Len(overlay_clips) = 2

\* C4: render on an empty timeline raises nothing and writes nothing, whatever the
\* overlays; the output changes only in a render of a non-empty timeline.
C4_EmptyRenderIsNoOp ==
    [][ /\ (lastCall'.name = "render" /\ timeline_clips = <<>>)
              => (raised' = "none" /\ ~output'.written /\ output' = output)
        /\ output' # output
              => (lastCall'.name = "render" /\ timeline_clips # <<>> /\ output'.written) ]_vars

C4_Witness ==
    /\ lastCall.name = "render"
    /\ raised = "none"
    /\ timeline_clips = <<>>
    /\ Len(overlay_clips) = 2
    /\ ~output.written

\* C2: the frame source a render of a non-empty timeline hands to the encoder lasts
\* the sum of the timeline entries' durations, whatever the overlays.
C2_OutputLastsTheTimeline ==
    (lastCall.name = "render" /\ timeline_clips # <<>>)
      => output.duration = SumDurations(timeline_clips, Len(timeline_clips))

\* The instants of the rendered output.
Instants == 0..(output.duration - 1)

Drawn(frame, layer, i) == \E k \in 1..Len(frame) : frame[k] = [layer |-> layer, index |-> i]

\* C6: in the rendered output, at every instant t, timeline entry i is drawn exactly
\* when start_i <= t < start_i + duration_i (start_i the sum of the durations before
\* it), overlay j is drawn exactly when start_j <= t < start_j + duration_j with t
\* counted from the start of the whole output, and the overlays lie above the
\* timeline layer in the order of their add_overlay calls.
C6_LayersAtEveryInstant ==
    output.written =>
      \A t \in Instants :
        LET frame == playing_clips(output, t)
        IN  /\ \A i \in 1..Len(output.timeline.clips) :
                  Drawn(frame, "timeline", i)
                    <=> /\ SumDurations(timeline_clips, i - 1) <= t
                        /\ t < SumDurations(timeline_clips, i - 1) + timeline_clips[i].duration
            /\ \A j \in 1..Len(output.overlays) :
                  Drawn(frame, "overlay", j)
                    <=> /\ overlay_clips[j].start <= t
                        /\ t < overlay_clips[j].start + overlay_clips[j].duration
            /\ \A k \in 1..Len(frame) : \A m \in (k + 1)..Len(frame) :
                  \/ frame[k].layer = "timeline" /\ frame[m].layer = "overlay"
                  \/ frame[k].layer = frame[m].layer /\ frame[k].index < frame[m].index

C6_Witness ==
    /\ output.written
    /\ Len(output.timeline.clips) = 2
    /\ Len(output.overlays) = 2
    /\ output.overlays[1].start = 3 /\ output.overlays[1].duration = 1
    /\ output.overlays[2].start = 0 /\ output.overlays[2].duration = 4
    /\ playing_clips(output, 3) = << [layer |-> "timeline", index |-> 2],
                                     [layer |-> "overlay", index |-> 1],
                                     [layer |-> "overlay", index |-> 2] >>
    /\ playing_clips(output, 2) = << [layer |-> "timeline", index |-> 1],
                                     [layer |-> "overlay", index |-> 2] >>

\* C9: every arrow overlay is placed with its top-left corner at canvas (0,0),
\* whatever position was passed to add_overlay.
C9_ArrowPlacedAtOrigin ==
    \A j \in 1..Len(overlay_clips) :
      overlay_clips[j].kind = "Arrow" => blit_position(overlay_clips[j], size) = <<0, 0>>

\* The nearest integers to cw * scale and ch * scale, scale = min(tw/cw, th/ch).
WithinRounding(n, source_dim, s) ==
    LET d == n * s[2] - source_dim * s[1]
    IN  2 * (IF d >= 0 THEN d ELSE -d) <= s[2]

MinRatio(source, target) ==
    IF target[1] * source[2] <= target[2] * source[1]
    THEN <<target[1], source[1]>> ELSE <<target[2], source[2]>>

C10_ParseErrorBeforeAnyBuildStep ==
    pc = "parse_error" => (lastCall.name = "none" /\ ~output.written)

====
